---- MODULE Spec2Model ----
(***************************************************************************)
(* MOBGA-AOS: multi-objective binary GA with adaptive operator selection.  *)
(* Model of src/MOBGA-AOS/src: mobga_aos.py (orchestrator, fitness cache), *)
(* aos.py (adaptive operator selection), nsga_methods/nsga2.py (Pareto     *)
(* ranking), nsga_methods/crossover.py and nsga_methods/mutation.py.       *)
(*                                                                         *)
(* Conventions: a numpy array is a sequence, so Python index i is index    *)
(* i+1 here.  A chromosome is a sequence of bits, an objective pair is     *)
(* <<f1, f2>>.  A crowding distance or a probability is an exact rational  *)
(* <<numerator, denominator>>; <<1, 0>> is numpy's inf.                    *)
(***************************************************************************)
EXTENDS Integers, Sequences, FiniteSets, TLC

\* ------------------------------------------------------------------ bounds
\* Largest pool handed to the ranking functions in SpecSel.
MaxPool == 4
\* Objective values of the pools of SpecSel.
ObjVals == {0, 1, 2}
\* Configurations of a run: population sizes, chromosome lengths, budgets and
\* AOS windows; Q is the size of the operator pool of main.py.
PopSizes == {1, 2, 3, 4}
Lengths  == {1, 2, 3}
\* The longest chromosomes whose runs are followed for every budget; longer
\* ones are followed for the budget 1, which the initial population exhausts.
LoopLen  == 2
MaxFes   == 2
MaxLP    == 1
QPool    == 5
\* Pairs of offspring a run is followed for: a generation is entered if its
\* whole batch stays within MaxPairs pairs.
MaxPairs == 2
\* AOS called directly: operator pool sizes, window lengths, and the numbers
\* of credit_assignment calls and of end_generation calls that are followed.
PoolSizes  == {2, 3}
Windows    == {1, 2}
MaxCredits == 2
MaxEnds    == 4
\* The largest entry of the history matrices handed to _update_probabilities.
MaxCount   == 3
\* The error percentages the k-NN oracle returns.
ErrVals  == {0, 50}
\* Answers of an oracle that breaks its contract (an error outside [0, 100]).
BadErrVals == {-1, 101}

\* ----------------------------------------------------------------- helpers
Range(s) == {s[i] : i \in DOMAIN s}

RECURSIVE SumSeq(_)
SumSeq(s) == IF s = <<>> THEN 0 ELSE Head(s) + SumSeq(Tail(s))

\* s[idx[1]], s[idx[2]], ...: numpy's fancy indexing s[idx].
Take(s, idx) == [i \in 1..Len(idx) |-> s[idx[i]]]

\* Exact rationals <<num, den>> with den >= 0; den = 0 is +inf.
INF == <<1, 0>>
IsInf(d) == d[2] = 0
RatLT(a, b) == a[1] * b[2] < b[1] * a[2]

\* np.argsort(keys): the orders of the indices in `left` that put the keys in
\* non-decreasing order.  The default kind ("quicksort") is not stable, so
\* equal keys come in whatever order the build produces.
RECURSIVE ArgSortRat(_, _)
ArgSortRat(keys, left) ==
    IF left = {} THEN {<<>>}
    ELSE LET mins == {i \in left : \A j \in left : ~RatLT(keys[j], keys[i])}
         IN UNION {{<<i>> \o rest : rest \in ArgSortRat(keys, left \ {i})} : i \in mins}

\* The concatenation of a sequence of sequences.
RECURSIVE Flatten(_)
Flatten(seqs) == IF seqs = <<>> THEN <<>> ELSE Head(seqs) \o Flatten(Tail(seqs))

\* np.argsort(vals) for numbers.
ArgSortInt(vals) == ArgSortRat([i \in DOMAIN vals |-> <<vals[i], 1>>], DOMAIN vals)

\* The members of `set` in increasing order.
RECURSIVE Ascending(_)
Ascending(set) ==
    IF set = {} THEN <<>>
    ELSE LET lo == CHOOSE i \in set : \A j \in set : i <= j
         IN <<lo>> \o Ascending(set \ {lo})

\* np.argsort(vals) as crowding_distance reads it.  The loop reads the order
\* only through order[0], order[-1] and the gap sorted_obj[i+1] - sorted_obj[i-1]
\* added to order[i], which is 0 for every member strictly inside a run of
\* equal values: what an order decides is who is first and who is last in each
\* run.  So one order per choice of the two ends of every run is kept, the
\* members in between in increasing order.
RECURSIVE ArgSortEnds(_, _)
ArgSortEnds(vals, left) ==
    IF left = {} THEN {<<>>}
    ELSE LET lo   == CHOOSE v \in {vals[i] : i \in left} : \A j \in left : v <= vals[j]
             run  == {i \in left : vals[i] = lo}
             ends == IF Cardinality(run) = 1
                     THEN {<<i>> : i \in run}
                     ELSE {<<fl[1]>> \o Ascending(run \ {fl[1], fl[2]}) \o <<fl[2]>>
                             : fl \in {x \in run \X run : x[1] # x[2]}}
         IN UNION {{e \o rest : rest \in ArgSortEnds(vals, left \ run)} : e \in ends}

\* The sequences of k distinct members of `set`.
RECURSIVE KPerms(_, _)
KPerms(set, k) ==
    IF k = 0 THEN {<<>>}
    ELSE UNION {{<<i>> \o rest : rest \in KPerms(set \ {i}, k - 1)} : i \in set}

\* np.argsort(-dist)[:needed]: the first `needed` indices of an order by
\* descending distance.  Members of equal distance come in any order.
RECURSIVE ArgSortDescPrefix(_, _, _)
ArgSortDescPrefix(dist, left, needed) ==
    IF needed = 0 \/ left = {} THEN {<<>>}
    ELSE LET top  == CHOOSE i \in left : \A j \in left : ~RatLT(dist[i], dist[j])
             maxs == {i \in left : ~RatLT(dist[i], dist[top])}
             k    == IF Cardinality(maxs) < needed THEN Cardinality(maxs) ELSE needed
             rest == ArgSortDescPrefix(dist, left \ maxs, needed - k)
         IN {pr[1] \o pr[2] : pr \in KPerms(maxs, k) \X rest}

\* ------------------------------------------------------- nsga2.py: dominance
\* np.all(f_a <= f_b) and np.any(f_a < f_b)
dominates(f_a, f_b) ==
    /\ \A m \in DOMAIN f_a : f_a[m] <= f_b[m]
    /\ \E m \in DOMAIN f_a : f_a[m] < f_b[m]

\* The comparison loop without its `elif dominates(objectives[j], objectives[i])`
\* branch.
RECURSIVE FndsInnerOneWay(_, _, _, _)
FndsInnerOneWay(objectives, i, j, st) ==
    IF j > Len(objectives) THEN st
    ELSE FndsInnerOneWay(objectives, i, j + 1,
           IF dominates(objectives[i], objectives[j])
           THEN [st EXCEPT !.S[i] = Append(@, j), !.n[j] = @ + 1]
           ELSE st)

\* ----------------------------------------- nsga2.py: fast non-dominated sort
\* st = [S, n, fronts0]: the lists S[i], the counts n[i] and fronts[0].
RECURSIVE FndsInner(_, _, _, _)
FndsInner(objectives, i, j, st) ==
    IF j > Len(objectives) THEN st
    ELSE FndsInner(objectives, i, j + 1,
           IF dominates(objectives[i], objectives[j])
           THEN [st EXCEPT !.S[i] = Append(@, j), !.n[j] = @ + 1]
           ELSE IF dominates(objectives[j], objectives[i])
           THEN [st EXCEPT !.S[j] = Append(@, i), !.n[i] = @ + 1]
           ELSE st)

RECURSIVE FndsOuter(_, _, _)
FndsOuter(objectives, i, st) ==
    IF i > Len(objectives) THEN st
    ELSE LET st1 == FndsInner(objectives, i, i + 1, st)
         IN FndsOuter(objectives, i + 1,
              IF st1.n[i] = 0 THEN [st1 EXCEPT !.fronts0 = Append(@, i)] ELSE st1)

\* for j in S[i]: n[j] -= 1; if n[j] == 0: next_front.append(j)
RECURSIVE FndsDecrement(_, _)
FndsDecrement(Si, acc) ==
    IF Si = <<>> THEN acc
    ELSE LET j  == Head(Si)
             n1 == [acc.n EXCEPT ![j] = @ - 1]
         IN FndsDecrement(Tail(Si),
              [n |-> n1,
               next_front |-> IF n1[j] = 0 THEN Append(acc.next_front, j)
                              ELSE acc.next_front])

\* for i in fronts[current_front]: ...
RECURSIVE FndsFront(_, _, _)
FndsFront(S, front, acc) ==
    IF front = <<>> THEN acc
    ELSE FndsFront(S, Tail(front), FndsDecrement(S[Head(front)], acc))

\* while fronts[current_front]: ...; fronts.append(next_front)
RECURSIVE FndsPeel(_, _, _)
FndsPeel(S, n, fronts) ==
    IF fronts[Len(fronts)] = <<>> THEN fronts
    ELSE LET acc == FndsFront(S, fronts[Len(fronts)], [n |-> n, next_front |-> <<>>])
         IN FndsPeel(S, acc.n, Append(fronts, acc.next_front))

fast_non_dominated_sort(objectives) ==
    LET N    == Len(objectives)
        st0  == [S |-> [i \in 1..N |-> <<>>], n |-> [i \in 1..N |-> 0], fronts0 |-> <<>>]
        st   == FndsOuter(objectives, 1, st0)
        all  == FndsPeel(st.S, st.n, <<st.fronts0>>)
    IN \* return [f for f in fronts if f]
       SelectSeq(all, LAMBDA f : f # <<>>)

\* ------------------------------------------------ nsga2.py: crowding distance
\* One objective m of the loop, for the sort order `order` argsort returned.
\* Distances are kept over the common denominator den (the product of the
\* non-zero objective ranges of the front), so a gap g / obj_range is the
\* integer g * (den \div obj_range).
RECURSIVE CrowdInterior(_, _, _, _, _, _)
CrowdInterior(distances, order, sorted_obj, obj_range, den, i) ==
    IF i > Len(order) - 1 THEN distances
    ELSE CrowdInterior(
           [distances EXCEPT ![order[i]] =
               IF IsInf(@) THEN @
               ELSE <<@[1] + (sorted_obj[i + 1] - sorted_obj[i - 1]) * (den \div obj_range), den>>],
           order, sorted_obj, obj_range, den, i + 1)

\* One objective of the loop without `distances[order[-1]] = np.inf`.
CrowdObjectiveNoMax(distances, obj, m, order, den) ==
    LET n          == Len(order)
        sorted_obj == [i \in 1..n |-> obj[order[i]][m]]
        bounded    == [distances EXCEPT ![order[1]] = INF]
        obj_range  == sorted_obj[n] - sorted_obj[1]
    IN IF obj_range = 0 THEN bounded
       ELSE CrowdInterior(bounded, order, sorted_obj, obj_range, den, 2)

CrowdObjective(distances, obj, m, order, den) ==
    LET n          == Len(order)
        sorted_obj == [i \in 1..n |-> obj[order[i]][m]]
        bounded    == [distances EXCEPT ![order[1]] = INF, ![order[n]] = INF]
        obj_range  == sorted_obj[n] - sorted_obj[1]
    IN IF obj_range = 0 THEN bounded
       ELSE CrowdInterior(bounded, order, sorted_obj, obj_range, den, 2)

ObjRange(obj, m) ==
    LET vals == {obj[i][m] : i \in DOMAIN obj}
    IN (CHOOSE v \in vals : \A w \in vals : w <= v) - (CHOOSE v \in vals : \A w \in vals : v <= w)

RECURSIVE CrowdLoop(_, _, _, _)
CrowdLoop(distSet, obj, m, den) ==
    IF m > Len(obj[1]) THEN distSet
    ELSE LET orders == ArgSortEnds([i \in DOMAIN obj |-> obj[i][m]], DOMAIN obj)
         IN CrowdLoop({CrowdObjective(pr[1], obj, m, pr[2], den) : pr \in distSet \X orders},
                      obj, m + 1, den)

RECURSIVE RangeProduct(_, _)
RangeProduct(obj, m) ==
    IF m > Len(obj[1]) THEN 1
    ELSE (IF ObjRange(obj, m) = 0 THEN 1 ELSE ObjRange(obj, m)) * RangeProduct(obj, m + 1)

\* The distance vectors crowding_distance can return (one per way argsort may
\* order equal objective values).
crowding_distance(objectives, front) ==
    LET n == Len(front)
    IN IF n <= 2 THEN {[i \in 1..n |-> INF]}
       ELSE LET obj == Take(objectives, front)
                den == RangeProduct(obj, 1)
            IN CrowdLoop({[i \in 1..n |-> <<0, den>>]}, obj, 1, den)

\* The partial-front branch taking one index too few.
PartialFrontShort(objectives, front, needed) ==
    UNION {{Take(front, order) : order \in ArgSortDescPrefix(dist, DOMAIN dist, needed - 1)}
             : dist \in crowding_distance(objectives, front)}

\* -------------------------------------------- nsga2.py: environmental selection
\* The results of the partial-front branch: by crowding distance, descending.
PartialFront(objectives, front, needed) ==
    UNION {{Take(front, order) : order \in ArgSortDescPrefix(dist, DOMAIN dist, needed)}
             : dist \in crowding_distance(objectives, front)}

\* environmental_selection without the truncation: every front is taken.
environmental_selection_untruncated(objectives, N) ==
    {Flatten(fast_non_dominated_sort(objectives))}

RECURSIVE EnvLoop(_, _, _, _)
EnvLoop(objectives, N, fronts, selected) ==
    IF fronts = <<>> THEN {selected}
    ELSE LET front == Head(fronts)
         IN IF Len(selected) + Len(front) <= N
            THEN EnvLoop(objectives, N, Tail(fronts), selected \o front)
            ELSE {selected \o part : part \in PartialFront(objectives, front, N - Len(selected))}

\* The index arrays environmental_selection(objectives, N) can return.
environmental_selection(objectives, N) ==
    EnvLoop(objectives, N, fast_non_dominated_sort(objectives), <<>>)

\* ------------------------------------------------------------ chromosomes
Chromosomes(L) == [1..L -> {0, 1}]
Zero(L) == [i \in 1..L |-> 0]
\* individual.sum()
BitSum(individual) == SumSeq(individual)
\* a[:k] followed by b[k:] (Python slices; here positions 1..k and k+1..L).
Splice(a, b, k) == [i \in 1..Len(a) |-> IF i <= k THEN a[i] ELSE b[i]]
Perms(L) == {f \in [1..L -> 1..L] : \A i, j \in 1..L : f[i] = f[j] => i = j}

\* ------------------------------------------------- crossover.py: the operators
\* Each operator gives the set of child pairs <<c1, c2>> its random draws can
\* produce.  The empty set means that no draw exists: numpy raises ValueError
\* (rng.integers(1, L) with L = 1; rng.choice(L - 1, size=2, replace=False)
\* with L - 1 < 2).
single_point(p1, p2) ==
    LET L == Len(p1)
    IN {<<Splice(p1, p2, k), Splice(p2, p1, k)>> : k \in 1..(L - 1)}

two_point(p1, p2) ==
    LET L   == Len(p1)
        pts == {kk \in (1..(L - 1)) \X (1..(L - 1)) : kk[1] # kk[2]}
        k1(kk) == IF kk[1] < kk[2] THEN kk[1] ELSE kk[2]
        k2(kk) == IF kk[1] < kk[2] THEN kk[2] ELSE kk[1]
        Mid(a, b, lo, hi) == [i \in 1..L |-> IF lo < i /\ i <= hi THEN b[i] ELSE a[i]]
    IN {<<Mid(p1, p2, k1(kk), k2(kk)), Mid(p2, p1, k1(kk), k2(kk))>> : kk \in pts}

uniform(p1, p2) ==
    LET L == Len(p1)
    IN {<<[i \in 1..L |-> IF swap_mask[i] = 1 THEN p2[i] ELSE p1[i]],
          [i \in 1..L |-> IF swap_mask[i] = 1 THEN p1[i] ELSE p2[i]]>>
          : swap_mask \in Chromosomes(L)}

\* shuffle returning c1s, c2s without the unshuffle by inv_perm.
shuffle_not_unshuffled(p1, p2) ==
    LET L == Len(p1)
    IN {<<Splice(Take(p1, pk[1]), Take(p2, pk[1]), pk[2]),
          Splice(Take(p2, pk[1]), Take(p1, pk[1]), pk[2])>>
          : pk \in Perms(L) \X (1..(L - 1))}

shuffle(p1, p2) ==
    LET L == Len(p1)
        Shuffled(perm, k) ==
            LET inv_perm == CHOOSE o \in ArgSortInt(perm) : TRUE
                p1s == Take(p1, perm)
                p2s == Take(p2, perm)
                c1s == Splice(p1s, p2s, k)
                c2s == Splice(p2s, p1s, k)
            IN <<Take(c1s, inv_perm), Take(c2s, inv_perm)>>
    IN {Shuffled(pk[1], pk[2]) : pk \in Perms(L) \X (1..(L - 1))}

reduced_surrogate(p1, p2) ==
    LET L == Len(p1)
        diff_positions == {i \in 1..L : p1[i] # p2[i]}
    IN IF diff_positions = {} THEN {<<p1, p2>>}
       \* c1[k:] = p2[k:] with k a differing (0-based) position: position k
       \* itself is taken from the other parent.
       ELSE {<<Splice(p1, p2, k - 1), Splice(p2, p1, k - 1)>> : k \in diff_positions}

\* CROSSOVER_OPS[op_idx]; operator 1..5 here is index 0..4 of the list.
CROSSOVER_OPS(op_idx, p1, p2) ==
    CASE op_idx = 1 -> single_point(p1, p2)
      [] op_idx = 2 -> two_point(p1, p2)
      [] op_idx = 3 -> uniform(p1, p2)
      [] op_idx = 4 -> shuffle(p1, p2)
      [] op_idx = 5 -> reduced_surrogate(p1, p2)

\* apply_crossover with 0 < crossover_rate < 1: rng.random() < crossover_rate
\* may come out either way.  `children`: the pairs it can return; `raises`:
\* whether it can raise (the chosen operator has no draw).
apply_crossover(p1, p2, op_idx) ==
    [children |-> CROSSOVER_OPS(op_idx, p1, p2) \cup {<<p1, p2>>},
     raises   |-> CROSSOVER_OPS(op_idx, p1, p2) = {}]

\* ------------------------------------------------------------- mutation.py
\* rng.random(L) < mutation_rate with mutation_rate = 1/D: every mask is
\* possible, except that for D = 1 the rate is 1.0 and every draw is below it.
FlipMasks(L, D) == IF D = 1 THEN {[i \in 1..L |-> 1]} ELSE Chromosomes(L)

\* uniform_mutation without the repair of an all-zero result.
uniform_mutation_norepair(individual, D) ==
    {[i \in 1..Len(individual) |-> IF flip_mask[i] = 1 THEN 1 - individual[i]
                                   ELSE individual[i]]
       : flip_mask \in FlipMasks(Len(individual), D)}

\* The body of uniform_mutation with a repair that sets every bit.
MutatedRepairAll(individual, flip_mask) ==
    LET L == Len(individual)
        mutated == [i \in 1..L |-> IF flip_mask[i] = 1 THEN 1 - individual[i]
                                   ELSE individual[i]]
    IN IF BitSum(mutated) = 0 THEN {[i \in 1..L |-> 1]} ELSE {mutated}

\* The body of uniform_mutation once flip_mask is drawn: mutated[flip_mask] ^= 1
\* on a copy, then the repair at a random position if no bit is set.
Mutated(individual, flip_mask) ==
    LET L == Len(individual)
        mutated == [i \in 1..L |-> IF flip_mask[i] = 1 THEN 1 - individual[i]
                                   ELSE individual[i]]
    IN IF BitSum(mutated) = 0
       THEN {[mutated EXCEPT ![pos] = 1] : pos \in 1..L}
       ELSE {mutated}

\* The chromosomes uniform_mutation(individual, rng, 1/D) can return.
uniform_mutation(individual, D) ==
    UNION {Mutated(individual, flip_mask) : flip_mask \in FlipMasks(Len(individual), D)}

\* ------------------------------------------------ mobga_aos.py: fitness cache
\* individual.tobytes(): one byte per uint8 gene.
tobytes(individual) == [i \in DOMAIN individual |-> individual[i] % 256]

\* _evaluate counting a cache hit on a non-zero chromosome as an evaluation.
EvaluateCountsHit(cache_, nFE_, individual, f1_knn) ==
    LET key == tobytes(individual)
        f2  == BitSum(individual)
        f1  == IF f2 = 0 THEN 100 ELSE f1_knn
        new == [x \in DOMAIN cache_ \cup {key} |->
                  IF x \in DOMAIN cache_ THEN cache_[x] ELSE <<f1, f2>>]
    IN [cache |-> new,
        nFE   |-> IF f2 = 0 THEN nFE_ ELSE nFE_ + 1,
        ret   |-> new[key],
        knn_called |-> f2 # 0 /\ key \notin DOMAIN cache_]

\* _evaluate without the f2 == 0 branch: the all-zero chromosome goes to the
\* oracle like any other.
EvaluateNoShortCircuit(cache_, nFE_, individual, f1_knn) ==
    LET key == tobytes(individual)
    IN IF key \notin DOMAIN cache_
       THEN LET new == [x \in DOMAIN cache_ \cup {key} |->
                          IF x = key THEN <<f1_knn, BitSum(individual)>> ELSE cache_[x]]
            IN [cache |-> new, nFE |-> nFE_ + 1, ret |-> new[key], knn_called |-> TRUE]
       ELSE [cache |-> cache_, nFE |-> nFE_, ret |-> cache_[key], knn_called |-> FALSE]

\* _evaluate storing a fresh oracle answer on a hit as well.
EvaluateOverwrite(cache_, nFE_, individual, f1_knn) ==
    LET key == tobytes(individual)
        f2  == BitSum(individual)
        f1  == IF f2 = 0 THEN 100 ELSE f1_knn
        new == [x \in DOMAIN cache_ \cup {key} |->
                  IF x = key THEN <<f1, f2>> ELSE cache_[x]]
    IN [cache |-> new,
        nFE   |-> IF f2 = 0 \/ key \in DOMAIN cache_ THEN nFE_ ELSE nFE_ + 1,
        ret   |-> new[key],
        knn_called |-> f2 # 0 /\ key \notin DOMAIN cache_]

\* _evaluate(individual) on cache/nFE; f1_knn is what knn_cross_val_error
\* would return for the individual.  Gives the new cache, the new nFE, the
\* returned pair and whether knn_cross_val_error was called.
Evaluate(cache_, nFE_, individual, f1_knn) ==
    LET key == tobytes(individual)
    IN IF key \notin DOMAIN cache_
       THEN LET f2  == BitSum(individual)
                f1  == IF f2 = 0 THEN 100 ELSE f1_knn
                new == [x \in DOMAIN cache_ \cup {key} |->
                          IF x = key THEN <<f1, f2>> ELSE cache_[x]]
            IN [cache |-> new,
                nFE   |-> IF f2 = 0 THEN nFE_ ELSE nFE_ + 1,
                ret   |-> new[key],
                knn_called |-> f2 # 0]
       ELSE [cache |-> cache_, nFE |-> nFE_, ret |-> cache_[key], knn_called |-> FALSE]

\* The chromosomes among cs that _evaluate sends to the k-NN oracle.
Unseen(cache_, cs) == {c \in cs : tobytes(c) \notin DOMAIN cache_ /\ BitSum(c) # 0}
\* The oracle's answer for c (read by _evaluate on a miss only).
Oracle(knn, c) == IF c \in DOMAIN knn THEN knn[c] ELSE 0

\* The rows _init_population can produce: any random row, an all-zero row
\* repaired by setting one random position.
InitRows(D) ==
    UNION {IF BitSum(row) = 0 THEN {[row EXCEPT ![pos] = 1] : pos \in 1..D} ELSE {row}
             : row \in Chromosomes(D)}

\* _dominates without its np.any(a < b) conjunct.
aos_dominates_weak(a, b) == \A m \in DOMAIN a : a[m] <= b[m]

\* ------------------------------------------------------------------ aos.py
\* AdaptiveOperatorSelection._dominates
aos_dominates(a, b) ==
    /\ \A m \in DOMAIN a : a[m] <= b[m]
    /\ \E m \in DOMAIN a : a[m] < b[m]

RECURSIVE GCD(_, _)
GCD(a, b) == IF b = 0 THEN a ELSE GCD(b, a % b)

RECURSIVE GCDSeq(_)
GCDSeq(s) == IF s = <<>> THEN 0 ELSE GCD(Head(s), GCDSeq(Tail(s)))

RECURSIVE ProdSeq(_)
ProdSeq(s) == IF s = <<>> THEN 1 ELSE Head(s) * ProdSeq(Tail(s))

\* np.full(Q, 1.0 / Q)
UniformProbs(Q_) == [q \in 1..Q_ |-> <<1, Q_>>]
\* np.zeros(Q), np.zeros((LP, Q))
ZeroCounts(Q_) == [q \in 1..Q_ |-> 0]
ZeroHistory(LP_, Q_) == [g \in 1..LP_ |-> ZeroCounts(Q_)]

\* rng.choice(self.Q, p=self.probs): any operator of non-zero probability.
select_operator(probs_) == {q \in DOMAIN probs_ : probs_[q][1] > 0}

\* The classification with case 2 penalising only a child that both parents
\* dominate.
ChildRewardedUnlessBoth(p1_obj, p2_obj, child_obj) ==
    LET p1_dom_p2 == aos_dominates(p1_obj, p2_obj)
        p2_dom_p1 == aos_dominates(p2_obj, p1_obj)
    IN IF p1_dom_p2 \/ p2_dom_p1
       THEN ~aos_dominates(IF p1_dom_p2 THEN p1_obj ELSE p2_obj, child_obj)
       ELSE ~(aos_dominates(p1_obj, child_obj) /\ aos_dominates(p2_obj, child_obj))

\* One child of credit_assignment: TRUE for a reward, FALSE for a penalty.
ChildRewarded(p1_obj, p2_obj, child_obj) ==
    LET p1_dom_p2 == aos_dominates(p1_obj, p2_obj)
        p2_dom_p1 == aos_dominates(p2_obj, p1_obj)
    IN IF p1_dom_p2 \/ p2_dom_p1
       THEN LET better == IF p1_dom_p2 THEN p1_obj ELSE p2_obj
            IN ~aos_dominates(better, child_obj)
       ELSE LET p1_beats_child == aos_dominates(p1_obj, child_obj)
                p2_beats_child == aos_dominates(p2_obj, child_obj)
            IN ~p1_beats_child /\ ~p2_beats_child

\* credit_assignment(parents_obj, children_obj, op_idx) on the running counts.
RECURSIVE CreditLoop(_, _, _, _)
CreditLoop(counts, parents_obj, children_obj, op_idx) ==
    IF children_obj = <<>> THEN counts
    ELSE CreditLoop(
           IF ChildRewarded(parents_obj[1], parents_obj[2], Head(children_obj))
           THEN [counts EXCEPT !.n_reward[op_idx] = @ + 1]
           ELSE [counts EXCEPT !.n_penalty[op_idx] = @ + 1],
           parents_obj, Tail(children_obj), op_idx)

credit_assignment(n_reward_, n_penalty_, parents_obj, children_obj, op_idx) ==
    CreditLoop([n_reward |-> n_reward_, n_penalty |-> n_penalty_],
               parents_obj, children_obj, op_idx)

\* RD.sum(axis=0)
ColumnSum(matrix, q) == SumSeq([g \in DOMAIN matrix |-> matrix[g][q]])

\* _update_probabilities dividing by total also when total == 0 (0 / 0).
update_probabilities_nofallback(RD_, PN_, Q_) ==
    LET S1    == [q \in 1..Q_ |-> ColumnSum(RD_, q)]
        S2    == [q \in 1..Q_ |-> ColumnSum(PN_, q)]
        S4den == [q \in 1..Q_ |-> IF S1[q] = 0 THEN 1 ELSE S1[q] + S2[q]]
        all   == ProdSeq(S4den)
        S4    == [q \in 1..Q_ |-> S1[q] * (all \div S4den[q])]
    IN [q \in 1..Q_ |-> <<S4[q], SumSeq(S4)>>]

\* _update_probabilities that always takes the total == 0 branch.
update_probabilities_uniform(RD_, PN_, Q_) == UniformProbs(Q_)

\* _update_probabilities without the division by total.
update_probabilities_unnormalized(RD_, PN_, Q_) ==
    [q \in 1..Q_ |->
        IF ColumnSum(RD_, q) = 0 THEN <<0, 1>>
        ELSE <<ColumnSum(RD_, q), ColumnSum(RD_, q) + ColumnSum(PN_, q)>>]

\* _update_probabilities: the new probs.  S3 = DELTA is used only where
\* S1 = 0, and there S4 = 0 / (DELTA + S2) = 0, so every S4 is the exact
\* rational S1 / (S1 + S2) (or 0); probs = S4 / total in lowest common terms.
update_probabilities(RD_, PN_, Q_) ==
    LET S1    == [q \in 1..Q_ |-> ColumnSum(RD_, q)]
        S2    == [q \in 1..Q_ |-> ColumnSum(PN_, q)]
        S4den == [q \in 1..Q_ |-> IF S1[q] = 0 THEN 1 ELSE S1[q] + S2[q]]
        all   == ProdSeq(S4den)
        S4    == [q \in 1..Q_ |-> S1[q] * (all \div S4den[q])]
        total == SumSeq(S4)
        g     == GCDSeq(S4)
    IN IF total = 0 THEN UniformProbs(Q_)
       ELSE [q \in 1..Q_ |-> <<S4[q] \div g, total \div g>>]

\* self.k += 1; if self.k == self.LP: whether this end_generation call
\* recomputes the probabilities.
Recomputes(a, LP_) == a.k + 1 = LP_

\* end_generation that leaves RD and PN as they are after a recomputation.
end_generation_keeps_history(a, LP_, Q_) ==
    LET RD1 == [a.RD EXCEPT ![a.k + 1] = a.n_reward]
        PN1 == [a.PN EXCEPT ![a.k + 1] = a.n_penalty]
    IN [probs |-> IF Recomputes(a, LP_) THEN update_probabilities(RD1, PN1, Q_) ELSE a.probs,
        n_reward |-> ZeroCounts(Q_), n_penalty |-> ZeroCounts(Q_),
        RD |-> RD1, PN |-> PN1, k |-> IF Recomputes(a, LP_) THEN 0 ELSE a.k + 1]

\* end_generation on the AOS state a = [probs, n_reward, n_penalty, RD, PN, k].
end_generation(a, LP_, Q_) ==
    LET RD1 == [a.RD EXCEPT ![a.k + 1] = a.n_reward]
        PN1 == [a.PN EXCEPT ![a.k + 1] = a.n_penalty]
        k1  == a.k + 1
    IN IF Recomputes(a, LP_)
       THEN [probs |-> update_probabilities(RD1, PN1, Q_),
             n_reward |-> ZeroCounts(Q_), n_penalty |-> ZeroCounts(Q_),
             RD |-> ZeroHistory(LP_, Q_), PN |-> ZeroHistory(LP_, Q_), k |-> 0]
       ELSE [probs |-> a.probs,
             n_reward |-> ZeroCounts(Q_), n_penalty |-> ZeroCounts(Q_),
             RD |-> RD1, PN |-> PN1, k |-> k1]

\* AdaptiveOperatorSelection.__init__(Q, LP)
aos_init(Q_, LP_) ==
    [probs |-> UniformProbs(Q_),
     n_reward |-> ZeroCounts(Q_), n_penalty |-> ZeroCounts(Q_),
     RD |-> ZeroHistory(LP_, Q_), PN |-> ZeroHistory(LP_, Q_), k |-> 0]

\* ------------------------------------------------------------------- state
VARIABLES
    \* MOBGA_AOS.__init__: self.N, self.D, self.max_fes; aos.Q, aos.LP
    N, D, max_fes, Q, LP,
    \* self._cache, self.nFE
    cache, nFE,
    \* self.aos: probs, n_reward, n_penalty, RD, PN, k
    aos,
    \* run(): its position and its locals
    pc, population, objectives, generation,
    offspring_list, offspring_obj_list, pairs_done,
    op_idx,
    pareto,
    \* the log of calls made: by run() on its AOS and selection, or on a
    \* function or object called on its own
    calls

cfgVars  == <<N, D, max_fes, Q, LP>>
evalVars == <<cache, nFE>>
popVars  == <<population, objectives>>
genVars  == <<offspring_list, offspring_obj_list, pairs_done>>
vars == <<N, D, max_fes, Q, LP, cache, nFE, aos, pc, population, objectives, generation,
          offspring_list, offspring_obj_list, pairs_done,
          op_idx, pareto, calls>>

EmptyCache == [x \in {} |-> <<0, 0>>]
\* op_idx outside the pair loop.
NoOp == "none"
\* `calls` before any call on a function called on its own.
NoCall == [fn |-> "none"]

\* ------------------------------------------------------------ MOBGA_AOS.run
RunConfigs ==
    {cfg \in [N : PopSizes, D : Lengths, max_fes : 0..MaxFes, LP : 1..MaxLP] :
        cfg.D <= LoopLen \/ cfg.max_fes = 1}

\* What run() has done so far: the iterations of the while loop entered, the
\* credit_assignment calls of the current iteration, the end_generation and
\* environmental_selection calls made, and whether every p_idx drawn so far
\* named two different slots of the population.
RunLog(iterations, credits, ends, selections) ==
    [fn |-> "run", iterations |-> iterations, credits |-> credits,
     ends |-> ends, selections |-> selections, distinct_parents |-> TRUE]

\* MOBGA_AOS.__init__
InitRun(cfg) ==
    /\ N = cfg.N /\ D = cfg.D /\ max_fes = cfg.max_fes /\ Q = QPool /\ LP = cfg.LP
    /\ cache = EmptyCache /\ nFE = 0
    /\ aos = aos_init(QPool, cfg.LP)
    /\ pc = "init_population"
    /\ population = <<>> /\ objectives = <<>> /\ generation = 0
    /\ offspring_list = <<>> /\ offspring_obj_list = <<>> /\ pairs_done = 0
    /\ op_idx = NoOp
    /\ pareto = <<>>
    /\ calls = RunLog(0, 0, 0, 0)

Init == \E cfg \in RunConfigs : InitRun(cfg)

\* population = self._init_population()
InitPopulation ==
    /\ pc = "init_population"
    /\ population' \in [1..N -> InitRows(D)]
    /\ pc' = "evaluate_population"
    /\ UNCHANGED <<cfgVars, evalVars, aos, objectives, generation, genVars, op_idx, pareto, calls>>

\* _evaluate_population: _evaluate on each individual in turn; knn[x] is the
\* error the oracle returns for chromosome x.
RECURSIVE EvaluateAll(_, _, _)
EvaluateAll(st, individuals, knn) ==
    IF individuals = <<>> THEN st
    ELSE LET e == Evaluate(st.cache, st.nFE, Head(individuals), Oracle(knn, Head(individuals)))
         IN EvaluateAll([cache |-> e.cache, nFE |-> e.nFE, objs |-> Append(st.objs, e.ret)],
                        Tail(individuals), knn)

\* objectives = self._evaluate_population(population); generation = 0
EvaluatePopulation ==
    /\ pc = "evaluate_population"
    /\ \E knn \in [Unseen(cache, Range(population)) -> ErrVals] :
         LET st == EvaluateAll([cache |-> cache, nFE |-> nFE, objs |-> <<>>], population, knn)
         IN /\ cache' = st.cache
            /\ nFE' = st.nFE
            /\ objectives' = st.objs
    /\ generation' = 0
    /\ pc' = "while"
    /\ UNCHANGED <<cfgVars, aos, population, genVars, op_idx, pareto, calls>>

\* The for loop without its budget check.
BreakNever == FALSE

\* while self.nFE < self.max_fes
WhileCond == nFE < max_fes
\* if self.nFE >= self.max_fes: break
BreakCond == nFE >= max_fes

\* The while test passes: offspring_list = [], offspring_obj_list = [].
WhileEnter ==
    /\ pc = "while"
    /\ WhileCond
    /\ (generation + 1) * (N \div 2) <= MaxPairs
    /\ offspring_list' = <<>>
    /\ offspring_obj_list' = <<>>
    /\ pairs_done' = 0
    /\ pc' = "for"
    /\ calls' = [calls EXCEPT !.iterations = @ + 1, !.credits = 0]
    /\ UNCHANGED <<cfgVars, evalVars, aos, popVars, generation, op_idx, pareto>>

\* The while test fails.
WhileExit ==
    /\ pc = "while"
    /\ ~WhileCond
    /\ pc' = "extract"
    /\ UNCHANGED <<cfgVars, evalVars, aos, popVars, generation, genVars, op_idx, pareto, calls>>

\* rng.choice(self.N, size=2) drawing with replacement.
ParentChoicesWithReplacement == (1..N) \X (1..N)

\* rng.choice(self.N, size=2, replace=False)
ParentChoices == {pp \in (1..N) \X (1..N) : pp[1] # pp[2]}

\* Steps (b) and (c) for operator op and parent slots pp: the child pairs
\* apply_crossover followed by the two uniform_mutation calls can give.
Offspring(op, pp) ==
    UNION {uniform_mutation(cc[1], D) \X uniform_mutation(cc[2], D)
             : cc \in apply_crossover(population[pp[1]], population[pp[2]], op).children}

\* One iteration of `for _ in range(self.N // 2)` that passes the budget check:
\* steps (a) to (e) and the two extends.
ProducePair ==
    /\ pc = "for"
    /\ pairs_done < N \div 2
    /\ ~BreakCond
    /\ \E op \in select_operator(aos.probs), pp \in ParentChoices :
         \E cs \in Offspring(op, pp) :
           \E knn \in [Unseen(cache, {cs[1], cs[2]}) -> ErrVals] :
             LET c1 == cs[1]
                 c2 == cs[2]
                 e1 == Evaluate(cache, nFE, c1, Oracle(knn, c1))
                 e2 == Evaluate(e1.cache, e1.nFE, c2, Oracle(knn, c2))
                 parents_obj == Take(objectives, pp)
                 credit == credit_assignment(aos.n_reward, aos.n_penalty,
                                             parents_obj, <<e1.ret, e2.ret>>, op)
             IN /\ op_idx' = op
                /\ cache' = e2.cache
                /\ nFE' = e2.nFE
                /\ aos' = [aos EXCEPT !.n_reward = credit.n_reward,
                                      !.n_penalty = credit.n_penalty]
                /\ offspring_list' = offspring_list \o <<c1, c2>>
                /\ offspring_obj_list' = offspring_obj_list \o <<e1.ret, e2.ret>>
                /\ calls' = [calls EXCEPT !.credits = @ + 1, !.distinct_parents = @ /\ pp[1] # pp[2]]
    /\ pairs_done' = pairs_done + 1
    /\ UNCHANGED <<cfgVars, popVars, generation, pc, pareto>>

\* An iteration in which apply_crossover raises ValueError: run() ends with
\* the exception.
CrossoverRaises ==
    /\ pc = "for"
    /\ pairs_done < N \div 2
    /\ ~BreakCond
    /\ \E op \in select_operator(aos.probs), pp \in ParentChoices :
         /\ apply_crossover(population[pp[1]], population[pp[2]], op).raises
         /\ op_idx' = op
    /\ pc' = "raised"
    /\ UNCHANGED <<cfgVars, evalVars, aos, popVars, generation, genVars, pareto, calls>>

\* The break leaving the iteration without the end-of-generation bookkeeping.
ForBreakSkipsEnd ==
    /\ pc = "for"
    /\ pairs_done < N \div 2
    /\ BreakCond
    /\ pc' = "select"
    /\ op_idx' = NoOp
    /\ UNCHANGED <<cfgVars, evalVars, aos, popVars, generation, genVars, pareto, calls>>

\* The budget check breaks out of the for loop.
ForBreak ==
    /\ pc = "for"
    /\ pairs_done < N \div 2
    /\ BreakCond
    /\ pc' = "end_generation"
    /\ op_idx' = NoOp
    /\ UNCHANGED <<cfgVars, evalVars, aos, popVars, generation, genVars, pareto, calls>>

\* range(self.N // 2) is exhausted.
ForEnd ==
    /\ pc = "for"
    /\ pairs_done = N \div 2
    /\ pc' = "end_generation"
    /\ op_idx' = NoOp
    /\ UNCHANGED <<cfgVars, evalVars, aos, popVars, generation, genVars, pareto, calls>>

\* The bookkeeping without the `if not offspring_list: break` after it.
EndGenerationNoBreak ==
    /\ pc = "end_generation"
    /\ aos' = end_generation(aos, LP, Q)
    /\ generation' = generation + 1
    /\ pc' = "select"
    /\ calls' = [calls EXCEPT !.ends = @ + 1]
    /\ UNCHANGED <<cfgVars, evalVars, popVars, genVars, op_idx, pareto>>

\* self.aos.end_generation(); generation += 1; if not offspring_list: break
EndGeneration ==
    /\ pc = "end_generation"
    /\ aos' = end_generation(aos, LP, Q)
    /\ generation' = generation + 1
    /\ pc' = IF offspring_list = <<>> THEN "extract" ELSE "select"
    /\ calls' = [calls EXCEPT !.ends = @ + 1]
    /\ UNCHANGED <<cfgVars, evalVars, popVars, genVars, op_idx, pareto>>

\* Step 4: combine, environmental_selection, replace the population.
EnvSelect ==
    /\ pc = "select"
    /\ LET combined_pop == population \o offspring_list
           combined_obj == objectives \o offspring_obj_list
           survivors    == {<<Take(combined_pop, selected_idx), Take(combined_obj, selected_idx)>>
                              : selected_idx \in environmental_selection(combined_obj, N)}
       IN \E next \in survivors :
            /\ population' = next[1]
            /\ objectives' = next[2]
    \* the batch is not read again: the next iteration starts from empty lists
    /\ offspring_list' = <<>>
    /\ offspring_obj_list' = <<>>
    /\ pc' = "while"
    /\ calls' = [calls EXCEPT !.selections = @ + 1]
    /\ UNCHANGED <<cfgVars, evalVars, aos, generation, pairs_done, op_idx, pareto>>

\* The return with pf_idx naming the whole population.
ExtractWholePopulation ==
    /\ pc = "extract"
    /\ pareto' = <<population, objectives>>
    /\ pc' = "done"
    /\ UNCHANGED <<cfgVars, evalVars, aos, popVars, generation, genVars, op_idx, calls>>

\* Extract the final Pareto front and return it.
Extract ==
    /\ pc = "extract"
    /\ LET fronts == fast_non_dominated_sort(objectives)
           pf_idx == fronts[1]
       IN pareto' = <<Take(population, pf_idx), Take(objectives, pf_idx)>>
    /\ pc' = "done"
    /\ UNCHANGED <<cfgVars, evalVars, aos, popVars, generation, genVars, op_idx, calls>>

Next ==
    \/ InitPopulation
    \/ EvaluatePopulation
    \/ WhileEnter
    \/ WhileExit
    \/ ProducePair
    \/ CrossoverRaises
    \/ ForBreak
    \/ ForEnd
    \/ EndGeneration
    \/ EnvSelect
    \/ Extract

Spec == Init /\ [][Next]_vars

\* ------------------------------------------- the ranking functions on pools
\* The variables run() owns, at rest while a function is called on its own.
OutsideRun ==
    /\ N = 0 /\ max_fes = 0 /\ Q = QPool /\ LP = 1
    /\ aos = aos_init(QPool, 1)
    /\ population = <<>> /\ generation = 0
    /\ offspring_list = <<>> /\ offspring_obj_list = <<>> /\ pairs_done = 0
    /\ op_idx = NoOp
    /\ pareto = <<>>

\* The objective arrays handed to the ranking functions.
Pools == UNION {[1..n -> ObjVals \X ObjVals] : n \in 1..MaxPool}

InitSel ==
    /\ OutsideRun
    /\ D = 0 /\ cache = EmptyCache /\ nFE = 0
    /\ objectives \in Pools
    /\ pc = "sel"
    /\ calls = NoCall

\* dominates(objectives[i], objectives[j]) and _dominates on the same pair,
\* and both with the arguments exchanged.
CallDominates ==
    /\ pc = "sel"
    /\ \E i, j \in DOMAIN objectives :
         calls' = [fn |-> "dominates", a |-> objectives[i], b |-> objectives[j],
                   nsga2_ab |-> dominates(objectives[i], objectives[j]),
                   nsga2_ba |-> dominates(objectives[j], objectives[i]),
                   aos_ab   |-> aos_dominates(objectives[i], objectives[j]),
                   aos_ba   |-> aos_dominates(objectives[j], objectives[i])]
    /\ pc' = "returned"
    /\ UNCHANGED <<cfgVars, evalVars, aos, popVars, generation, genVars, op_idx, pareto>>

\* fronts = fast_non_dominated_sort(objectives)
CallSort ==
    /\ pc = "sel"
    /\ calls' = [fn |-> "fast_non_dominated_sort",
                 fronts |-> fast_non_dominated_sort(objectives)]
    /\ pc' = "returned"
    /\ UNCHANGED <<cfgVars, evalVars, aos, popVars, generation, genVars, op_idx, pareto>>

\* selected = environmental_selection(objectives, n) for a pool of at least n.
CallSelect ==
    /\ pc = "sel"
    /\ \E n \in 1..Len(objectives) :
         \E selected \in environmental_selection(objectives, n) :
           calls' = [fn |-> "environmental_selection", N |-> n, selected |-> selected]
    /\ pc' = "returned"
    /\ UNCHANGED <<cfgVars, evalVars, aos, popVars, generation, genVars, op_idx, pareto>>

\* distances = crowding_distance(objectives, front) with the whole pool as
\* the front.
CallCrowding ==
    /\ pc = "sel"
    /\ LET front == Ascending(DOMAIN objectives)
       IN \E distances \in crowding_distance(objectives, front) :
            calls' = [fn |-> "crowding_distance", front |-> front, distances |-> distances]
    /\ pc' = "returned"
    /\ UNCHANGED <<cfgVars, evalVars, aos, popVars, generation, genVars, op_idx, pareto>>

NextSel == CallDominates \/ CallSort \/ CallSelect

SpecSel == InitSel /\ [][NextSel]_vars

\* crowding_distance on its own, on every pool.
NextCrowd == CallCrowding

SpecCrowd == InitSel /\ [][NextCrowd]_vars

\* ------------------------------------------------- _evaluate called directly
InitEval ==
    /\ OutsideRun
    /\ D \in 1..LoopLen
    /\ cache = EmptyCache /\ nFE = 0
    /\ objectives = <<>>
    /\ pc = "eval"
    /\ calls = NoCall

\* The calls logged so far (the last two are kept).
EvalLog == IF calls.fn = "_evaluate" THEN calls.log ELSE <<>>

\* self._evaluate(individual) on any chromosome of length D, the all-zero one
\* included; f1_knn is what the oracle would answer.
CallEvaluate ==
    /\ pc = "eval"
    /\ \E individual \in Chromosomes(D), f1_knn \in ErrVals :
         LET e    == Evaluate(cache, nFE, individual, f1_knn)
             call == [individual |-> individual,
                      cached     |-> tobytes(individual) \in DOMAIN cache,
                      nFE_before |-> nFE,
                      nFE_after  |-> e.nFE,
                      ret        |-> e.ret,
                      knn_called |-> e.knn_called]
         IN /\ cache' = e.cache
            /\ nFE' = e.nFE
            /\ calls' = [fn  |-> "_evaluate",
                         log |-> IF EvalLog = <<>> THEN <<call>>
                                 ELSE <<EvalLog[Len(EvalLog)], call>>]
    /\ UNCHANGED <<N, D, max_fes, Q, LP, aos, pc, popVars, generation, genVars, op_idx, pareto>>

NextEval == CallEvaluate

SpecEval == InitEval /\ [][NextEval]_vars

\* ------------------------------- _evaluate with an oracle that is not trusted
\* self._evaluate(individual) when knn_cross_val_error may answer anything,
\* in range or not.
CallEvaluateAnyAnswer ==
    /\ pc = "eval"
    /\ \E individual \in Chromosomes(D), f1_knn \in ErrVals \cup BadErrVals :
         LET e    == Evaluate(cache, nFE, individual, f1_knn)
             call == [individual |-> individual,
                      cached     |-> tobytes(individual) \in DOMAIN cache,
                      nFE_before |-> nFE,
                      nFE_after  |-> e.nFE,
                      ret        |-> e.ret,
                      knn_called |-> e.knn_called]
         IN /\ cache' = e.cache
            /\ nFE' = e.nFE
            /\ calls' = [fn  |-> "_evaluate",
                         log |-> IF EvalLog = <<>> THEN <<call>>
                                 ELSE <<EvalLog[Len(EvalLog)], call>>]
    /\ UNCHANGED <<N, D, max_fes, Q, LP, aos, pc, popVars, generation, genVars, op_idx, pareto>>

NextOracle == CallEvaluateAnyAnswer

SpecOracle == InitEval /\ [][NextOracle]_vars

\* ------------------------------------- AdaptiveOperatorSelection called directly
\* The objective pairs of chromosomes with one or two selected features.
RunObjs == ErrVals \X {1, 2}

\* What the caller has seen since construction: the number of end_generation
\* calls and of credit_assignment calls, whether the last
\* end_generation recomputed, probs before it, and the counts handed over by
\* the generations that ended since the recomputation before the last call.
AosLog(fn, ends, credits, recomputed, probs_before, window) ==
    [fn |-> fn, ends |-> ends, credits |-> credits, recomputed |-> recomputed,
     probs_before |-> probs_before, window |-> window]

NoWindow(Q_) == [reward |-> ZeroCounts(Q_), penalty |-> ZeroCounts(Q_)]

\* Everything but Q, LP, aos, D, population, pc and calls, at rest.
OutsideRunConfig ==
    /\ N = 0 /\ max_fes = 0
    /\ cache = EmptyCache /\ nFE = 0
    /\ objectives = <<>> /\ generation = 0
    /\ offspring_list = <<>> /\ offspring_obj_list = <<>> /\ pairs_done = 0
    /\ op_idx = NoOp /\ pareto = <<>>

\* AdaptiveOperatorSelection(Q, LP)
InitAos ==
    /\ N = 0 /\ D = 0 /\ max_fes = 0
    /\ Q \in PoolSizes /\ LP \in Windows
    /\ aos = aos_init(Q, LP)
    /\ cache = EmptyCache /\ nFE = 0
    /\ population = <<>> /\ objectives = <<>> /\ generation = 0
    /\ offspring_list = <<>> /\ offspring_obj_list = <<>> /\ pairs_done = 0
    /\ op_idx = NoOp /\ pareto = <<>>
    /\ pc = "aos"
    /\ calls = AosLog("__init__", 0, 0, FALSE, aos.probs, NoWindow(Q))

\* aos.credit_assignment(parents_obj, children_obj, op) with two parents and
\* two children.
CallCredit ==
    /\ pc = "aos"
    /\ calls.credits < MaxCredits
    /\ \E op \in 1..Q, parents_obj \in RunObjs \X RunObjs, children_obj \in RunObjs \X RunObjs :
         LET c == credit_assignment(aos.n_reward, aos.n_penalty, parents_obj, children_obj, op)
         IN aos' = [aos EXCEPT !.n_reward = c.n_reward, !.n_penalty = c.n_penalty]
    /\ calls' = [calls EXCEPT !.fn = "credit_assignment", !.credits = @ + 1]
    /\ UNCHANGED <<cfgVars, evalVars, pc, popVars, generation, genVars, op_idx, pareto>>

\* aos.end_generation()
CallEndGeneration ==
    /\ pc = "aos"
    /\ calls.ends < MaxEnds
    /\ aos' = end_generation(aos, LP, Q)
    /\ LET since == IF calls.recomputed THEN NoWindow(Q) ELSE calls.window
       IN calls' = AosLog("end_generation", calls.ends + 1, calls.credits, Recomputes(aos, LP), aos.probs,
                          [reward  |-> [q \in 1..Q |-> since.reward[q] + aos.n_reward[q]],
                           penalty |-> [q \in 1..Q |-> since.penalty[q] + aos.n_penalty[q]]])
    /\ UNCHANGED <<cfgVars, evalVars, pc, popVars, generation, genVars, op_idx, pareto>>

NextAos == CallCredit \/ CallEndGeneration

SpecAos == InitAos /\ [][NextAos]_vars

\* -------------------------------------- _update_probabilities called directly
\* An AOS object with two operators at the end of a window, its history
\* matrices holding any counts up to MaxCount.
InitProb ==
    /\ N = 0 /\ D = 0 /\ max_fes = 0
    /\ Q = 2 /\ LP \in Windows
    /\ \E RD_, PN_ \in [1..LP -> [1..Q -> 0..MaxCount]] :
         aos = [aos_init(Q, LP) EXCEPT !.RD = RD_, !.PN = PN_]
    /\ cache = EmptyCache /\ nFE = 0
    /\ population = <<>> /\ objectives = <<>> /\ generation = 0
    /\ offspring_list = <<>> /\ offspring_obj_list = <<>> /\ pairs_done = 0
    /\ op_idx = NoOp /\ pareto = <<>>
    /\ pc = "prob"
    /\ calls = NoCall

\* aos._update_probabilities(); S1 and S2 are the window sums it read.
CallUpdateProbabilities ==
    /\ pc = "prob"
    /\ aos' = [aos EXCEPT !.probs = update_probabilities(aos.RD, aos.PN, Q),
                          !.RD = ZeroHistory(LP, Q), !.PN = ZeroHistory(LP, Q)]
    /\ calls' = [fn |-> "_update_probabilities",
                 S1 |-> [q \in 1..Q |-> ColumnSum(aos.RD, q)],
                 S2 |-> [q \in 1..Q |-> ColumnSum(aos.PN, q)]]
    /\ pc' = "returned"
    /\ UNCHANGED <<cfgVars, evalVars, popVars, generation, genVars, op_idx, pareto>>

NextProb == CallUpdateProbabilities

SpecProb == InitProb /\ [][NextProb]_vars

\* ------------------------------------------ credit_assignment called directly
\* An AOS object with two operators in the middle of a generation, the
\* objectives of two parents (objectives) and of their two children
\* (offspring_obj_list), and the operator that produced them.
InitCredit ==
    /\ N = 0 /\ D = 0 /\ max_fes = 0
    /\ Q = 2 /\ LP = 1
    /\ \E n_reward_, n_penalty_ \in [1..Q -> 0..1] :
         aos = [aos_init(Q, LP) EXCEPT !.n_reward = n_reward_, !.n_penalty = n_penalty_]
    /\ cache = EmptyCache /\ nFE = 0
    /\ population = <<>> /\ generation = 0
    /\ objectives \in (ObjVals \X ObjVals) \X (ObjVals \X ObjVals)
    /\ offspring_obj_list \in (ObjVals \X ObjVals) \X (ObjVals \X ObjVals)
    /\ offspring_list = <<>> /\ pairs_done = 0
    /\ op_idx \in 1..Q /\ pareto = <<>>
    /\ pc = "credit"
    /\ calls = NoCall

\* self.aos.credit_assignment(parents_obj, children_obj, op_idx)
CallCreditAssignment ==
    /\ pc = "credit"
    /\ LET c == credit_assignment(aos.n_reward, aos.n_penalty, objectives,
                                  offspring_obj_list, op_idx)
       IN aos' = [aos EXCEPT !.n_reward = c.n_reward, !.n_penalty = c.n_penalty]
    /\ calls' = [fn |-> "credit_assignment",
                 n_reward_before |-> aos.n_reward, n_penalty_before |-> aos.n_penalty]
    /\ pc' = "returned"
    /\ UNCHANGED <<cfgVars, evalVars, popVars, generation, genVars, op_idx, pareto>>

NextCredit == CallCreditAssignment

SpecCredit == InitCredit /\ [][NextCredit]_vars

\* ------------------------------------------- crossover operators called directly
\* Two parents of the same length, as population[0] and population[1].
InitCross ==
    /\ OutsideRunConfig
    /\ Q = QPool /\ LP = 1 /\ aos = aos_init(QPool, 1)
    /\ D \in Lengths
    /\ population \in Chromosomes(D) \X Chromosomes(D)
    /\ pc = "cross"
    /\ calls = NoCall

\* c1, c2 = CROSSOVER_OPS[op](p1, p2, rng)
CallCrossover ==
    /\ pc = "cross"
    /\ \E op \in 1..QPool :
         \E children \in CROSSOVER_OPS(op, population[1], population[2]) :
           calls' = [fn |-> "crossover", op |-> op, c1 |-> children[1], c2 |-> children[2]]
    /\ pc' = "returned"
    /\ UNCHANGED <<cfgVars, evalVars, aos, popVars, generation, genVars, op_idx, pareto>>

\* CROSSOVER_OPS[op](p1, p2, rng) raises: numpy has no cut point to draw.
CallCrossoverRaises ==
    /\ pc = "cross"
    /\ \E op \in 1..QPool :
         /\ CROSSOVER_OPS(op, population[1], population[2]) = {}
         /\ calls' = [fn |-> "crossover", op |-> op, c1 |-> <<>>, c2 |-> <<>>]
    /\ pc' = "raised"
    /\ UNCHANGED <<cfgVars, evalVars, aos, popVars, generation, genVars, op_idx, pareto>>

\* c1, c2 = apply_crossover(p1, p2, op, rng, crossover_rate)
CallApplyCrossover ==
    /\ pc = "cross"
    /\ \E op \in 1..QPool :
         \E children \in apply_crossover(population[1], population[2], op).children :
           calls' = [fn |-> "apply_crossover", op |-> op,
                     c1 |-> children[1], c2 |-> children[2]]
    /\ pc' = "returned"
    /\ UNCHANGED <<cfgVars, evalVars, aos, popVars, generation, genVars, op_idx, pareto>>

\* apply_crossover(p1, p2, op, rng, crossover_rate) raises in the operator.
CallApplyCrossoverRaises ==
    /\ pc = "cross"
    /\ \E op \in 1..QPool :
         /\ apply_crossover(population[1], population[2], op).raises
         /\ calls' = [fn |-> "apply_crossover", op |-> op, c1 |-> <<>>, c2 |-> <<>>]
    /\ pc' = "raised"
    /\ UNCHANGED <<cfgVars, evalVars, aos, popVars, generation, genVars, op_idx, pareto>>

NextCross ==
    \/ CallCrossover
    \/ CallCrossoverRaises
    \/ CallApplyCrossover
    \/ CallApplyCrossoverRaises

SpecCross == InitCross /\ [][NextCross]_vars

\* -------------------------------------------- uniform_mutation called directly
\* One chromosome of any length in Lengths, as population[0].
InitMut ==
    /\ OutsideRunConfig
    /\ Q = QPool /\ LP = 1 /\ aos = aos_init(QPool, 1)
    /\ D \in Lengths
    /\ \E individual \in Chromosomes(D) : population = <<individual>>
    /\ pc = "mutate"
    /\ calls = NoCall

\* mutated = uniform_mutation(individual, rng, mutation_rate) with any rate
\* strictly between 0 and 1: flip_mask is any mask.  The call works on a copy,
\* so the caller's array is what it was.
CallMutation ==
    /\ pc = "mutate"
    /\ \E flip_mask \in Chromosomes(D) :
         \E mutated \in Mutated(population[1], flip_mask) :
           calls' = [fn |-> "uniform_mutation", individual |-> population[1],
                     flip_mask |-> flip_mask, mutated |-> mutated]
    /\ population' = population
    /\ pc' = "returned"
    /\ UNCHANGED <<cfgVars, evalVars, aos, objectives, generation, genVars, op_idx, pareto>>

NextMut == CallMutation

SpecMut == InitMut /\ [][NextMut]_vars

\* ------------------------------------------------ properties of the ranking
\* C10: dominance is antisymmetric and irreflexive (dominates(A, B) and
\* dominates(B, A) are never both true, dominates(A, A) is false) in both
\* nsga2.dominates and AdaptiveOperatorSelection._dominates, and the two
\* implementations return the same answer on every pair.
C10_DominanceAntisymmetric ==
    calls.fn = "dominates" =>
        /\ ~(calls.nsga2_ab /\ calls.nsga2_ba)
        /\ ~(calls.aos_ab /\ calls.aos_ba)
        /\ calls.a = calls.b => (~calls.nsga2_ab /\ ~calls.aos_ab)
        /\ calls.nsga2_ab = calls.aos_ab
        /\ calls.nsga2_ba = calls.aos_ba

\* Both implementations were asked about a pair in which A dominates B.
C10_Witness ==
    /\ calls.fn = "dominates"
    /\ calls.a # calls.b
    /\ calls.nsga2_ab /\ calls.aos_ab
    /\ ~calls.nsga2_ba /\ ~calls.aos_ba

\* C9: fast_non_dominated_sort returns non-empty fronts that partition the
\* indices of the pool (every index in exactly one front, once), and front 0
\* holds exactly the solutions no solution of the pool dominates.
C9_FrontsPartition ==
    calls.fn = "fast_non_dominated_sort" =>
        LET fronts == calls.fronts
            flat   == Flatten(fronts)
            n      == Len(objectives)
            beaten(i) == \E j \in 1..n :
                            /\ objectives[j][1] <= objectives[i][1]
                            /\ objectives[j][2] <= objectives[i][2]
                            /\ objectives[j] # objectives[i]
        IN /\ \A k \in DOMAIN fronts : fronts[k] # <<>>
           /\ Len(flat) = n
           /\ Range(flat) = 1..n
           /\ Range(fronts[1]) = {i \in 1..n : ~beaten(i)}

\* A pool with a duplicated pair sorted into at least two fronts.
C9_Witness ==
    /\ calls.fn = "fast_non_dominated_sort"
    /\ Len(calls.fronts) >= 2
    /\ Len(calls.fronts[1]) >= 2
    /\ \E i, j \in DOMAIN objectives : i # j /\ objectives[i] = objectives[j]

\* C8: environmental_selection(objectives, N) on a pool of at least N solutions
\* returns exactly N indices of the pool, none twice, and among them every
\* member of every front that fits entirely within the N slots.
C8_SelectionSize ==
    calls.fn = "environmental_selection" =>
        LET selected == calls.selected
            fronts   == fast_non_dominated_sort(objectives)
            upto(k)  == Len(Flatten(SubSeq(fronts, 1, k)))
        IN /\ Len(selected) = calls.N
           /\ Range(selected) \subseteq DOMAIN objectives
           /\ Cardinality(Range(selected)) = calls.N
           /\ \A k \in DOMAIN fronts :
                 upto(k) <= calls.N => Range(fronts[k]) \subseteq Range(selected)

\* A selection in which front 0 fits and the next front is truncated.
C8_Witness ==
    /\ calls.fn = "environmental_selection"
    /\ LET fronts == fast_non_dominated_sort(objectives)
       IN /\ Len(fronts) >= 2
          /\ Len(fronts[1]) < calls.N
          /\ Len(fronts[1]) + Len(fronts[2]) > calls.N
          /\ Range(fronts[1]) \subseteq Range(calls.selected)

\* --------------------------------------------------- properties of _evaluate
LastCall == EvalLog[Len(EvalLog)]

\* C3 as stated: for any cache state, two calls on bit-identical chromosomes
\* add exactly 1 to nFE in total, and two calls on distinct never-seen
\* chromosomes add exactly 2.
C3_Original ==
    Len(EvalLog) = 2 =>
        LET first  == EvalLog[1]
            second == EvalLog[2]
            total  == second.nFE_after - first.nFE_before
        IN /\ first.individual = second.individual => total = 1
           /\ (first.individual # second.individual /\ ~first.cached /\ ~second.cached)
                 => total = 2

\* C3: two calls on bit-identical chromosomes add exactly 1 to nFE in total
\* when the chromosome has a set bit and was not cached before the first call,
\* the repeat adds 0 in every case, and two calls on distinct never-seen
\* chromosomes that both have a set bit add exactly 2.
C3_CacheBudget ==
    Len(EvalLog) = 2 =>
        LET first  == EvalLog[1]
            second == EvalLog[2]
            total  == second.nFE_after - first.nFE_before
        IN /\ first.individual = second.individual =>
                /\ second.nFE_after = second.nFE_before
                /\ (~first.cached /\ BitSum(first.individual) # 0) => total = 1
           /\ (/\ first.individual # second.individual
               /\ ~first.cached /\ ~second.cached
               /\ BitSum(first.individual) # 0 /\ BitSum(second.individual) # 0)
                 => total = 2

\* A never-seen chromosome with a set bit evaluated twice in a row on a cache
\* that already holds other entries.
C3_Witness ==
    /\ Len(EvalLog) = 2
    /\ EvalLog[1].individual = EvalLog[2].individual
    /\ ~EvalLog[1].cached
    /\ BitSum(EvalLog[1].individual) # 0
    /\ EvalLog[1].nFE_before >= 1
    /\ EvalLog[2].nFE_after = EvalLog[1].nFE_before + 1

\* C4: _evaluate on the all-zero chromosome returns (100.0, 0.0), does not call
\* the oracle and leaves nFE unchanged, whether the all-zero pattern is
\* already cached or not.
C4_ZeroShortCircuit ==
    (EvalLog # <<>> /\ LastCall.individual = Zero(D)) =>
        /\ LastCall.ret = <<100, 0>>
        /\ ~LastCall.knn_called
        /\ LastCall.nFE_after = LastCall.nFE_before

\* The all-zero chromosome evaluated for the first time and then again from
\* the cache.
C4_Witness ==
    /\ Len(EvalLog) = 2
    /\ EvalLog[1].individual = Zero(D) /\ ~EvalLog[1].cached
    /\ EvalLog[2].individual = Zero(D) /\ EvalLog[2].cached
    /\ EvalLog[2].ret = <<100, 0>>

\* C5: an _evaluate call removes or overwrites no cache entry (every stored
\* bit-pattern stays a key with the pair stored first), and a call that hits
\* the cache changes neither the cache nor nFE.
C5_CacheGrows ==
    [][/\ \A key \in DOMAIN cache : key \in DOMAIN cache' /\ cache'[key] = cache[key]
       /\ (calls'.fn = "_evaluate" /\ calls'.log[Len(calls'.log)].cached)
             => (cache' = cache /\ nFE' = nFE)]_vars

\* A hit on a cache of at least two entries.
C5_Witness ==
    /\ EvalLog # <<>>
    /\ LastCall.cached
    /\ BitSum(LastCall.individual) # 0
    /\ Cardinality(DOMAIN cache) >= 2

\* -------------------------------------------------------- properties of run()
\* C1 as stated: for max_fes >= 1, at every point of run(), initialization
\* included, nFE exceeds max_fes by at most 2.
C1_Original == max_fes >= 1 => nFE <= max_fes + 2

\* C1: initialization evaluates the whole population whatever the budget, so
\* nFE can be as large as N when the loop is reached; from then on a pair is
\* started only while nFE < max_fes and its two children add at most 2, so
\* nFE never exceeds the larger of N and max_fes + 1.
C1_BudgetOvershoot ==
    /\ [](nFE <= IF N > max_fes + 1 THEN N ELSE max_fes + 1)
    /\ [][pairs_done' = pairs_done + 1 => (nFE < max_fes /\ nFE' <= nFE + 2)]_vars

\* The pair in flight took nFE past the budget.
C1_Witness ==
    /\ pc = "for"
    /\ pairs_done >= 1
    /\ max_fes >= 1
    /\ nFE = max_fes + 1

\* C2: every run reaches Terminated.  With N >= 2 the loop of run() is left
\* only through its test nFE < max_fes (a generation without offspring would
\* need the test of the first pair to fail right after the loop test passed),
\* and nFE grows only when a chromosome with a set bit is evaluated for the
\* first time.  A run that always terminates is therefore never in the loop
\* with budget left and no such chromosome left to evaluate.
C2_RunTerminates ==
    (N >= 2 /\ pc \in {"while", "for", "end_generation", "select"} /\ nFE < max_fes)
        => Unseen(cache, Chromosomes(D)) # {}

\* C6: the population (and its objective array) holds exactly N members after
\* initialization and after every environmental selection, also when the
\* offspring batch was cut short by the budget check and when N is odd.
C6_PopulationSize ==
    /\ pc # "init_population" => Len(population) = N
    /\ pc \notin {"init_population", "evaluate_population"} => Len(objectives) = N

\* A selection was made from a batch the budget check cut short.
C6_Witness ==
    /\ pc = "while"
    /\ generation >= 1
    /\ pairs_done >= 1
    /\ pairs_done < N \div 2
    /\ Len(population) = N

\* C7: every chromosome of the population and every child handed to _evaluate
\* has a bit set, and the all-zero pattern is never a key of the cache.
C7_NoZeroChromosome ==
    /\ \A i \in DOMAIN population : BitSum(population[i]) >= 1
    /\ \A i \in DOMAIN offspring_list : BitSum(offspring_list[i]) >= 1
    /\ tobytes(Zero(D)) \notin DOMAIN cache

\* Children of chromosomes of length 1: the mutation rate is 1, the only bit
\* is flipped off and the repair sets it again.
C7_Witness ==
    /\ D = 1
    /\ pc = "select"
    /\ offspring_list # <<>>
    /\ \A i \in DOMAIN offspring_list : BitSum(offspring_list[i]) = 1

\* ------------------------------------------- properties of crowding_distance
\* C11: on a front of at least 3 members in which neither objective is
\* constant, crowding_distance sets exactly two members to infinity for each
\* objective, one with the minimum and one with the maximum of that
\* objective, and every member that is not one of these has a finite
\* distance >= 0.
C11_CrowdingBoundary ==
    (/\ calls.fn = "crowding_distance"
     /\ Len(calls.front) >= 3
     /\ \A m \in 1..2 : \E i, j \in DOMAIN objectives : objectives[i][m] # objectives[j][m])
    => LET dist   == calls.distances
           n      == Len(calls.front)
           IsMin(i, m) == \A j \in 1..n : objectives[i][m] <= objectives[j][m]
           IsMax(i, m) == \A j \in 1..n : objectives[j][m] <= objectives[i][m]
       IN \E lo1, hi1, lo2, hi2 \in 1..n :
            /\ lo1 # hi1 /\ IsMin(lo1, 1) /\ IsMax(hi1, 1)
            /\ lo2 # hi2 /\ IsMin(lo2, 2) /\ IsMax(hi2, 2)
            /\ \A i \in 1..n :
                 IF i \in {lo1, hi1, lo2, hi2} THEN IsInf(dist[i])
                 ELSE ~IsInf(dist[i]) /\ dist[i][1] >= 0 /\ dist[i][2] > 0

\* A front of four with a duplicated pair and an interior member of positive
\* finite distance.
C11_Witness ==
    /\ calls.fn = "crowding_distance"
    /\ Len(calls.front) = 4
    /\ \E i, j \in DOMAIN objectives : i # j /\ objectives[i] = objectives[j]
    /\ \A m \in 1..2 : \E i, j \in DOMAIN objectives : objectives[i][m] # objectives[j][m]
    /\ \E i \in 1..4 : ~IsInf(calls.distances[i]) /\ calls.distances[i][1] > 0

\* ------------------------------------------ properties of operator selection
\* The rationals of a probability vector add up to exactly 1.
SumsToOne(probs_) ==
    LET den == [q \in DOMAIN probs_ |-> probs_[q][2]]
        all == ProdSeq(den)
    IN SumSeq([q \in DOMAIN probs_ |-> probs_[q][1] * (all \div den[q])]) = all

\* C12: at every point (after construction and after any sequence of
\* credit_assignment and end_generation calls) probs has length Q, every
\* entry is non-negative and the entries sum to 1 (in exact arithmetic, of
\* which the floating-point vector is the rounding).
C12_ProbabilityVector ==
    pc = "aos" =>
        /\ DOMAIN aos.probs = 1..Q
        /\ \A q \in 1..Q : aos.probs[q][1] >= 0 /\ aos.probs[q][2] > 0
        /\ SumsToOne(aos.probs)

\* A recomputation has replaced the uniform vector by one that gives an
\* operator probability 0 and the others unequal shares.
C12_Witness ==
    /\ pc = "aos" /\ calls.fn = "end_generation" /\ calls.recomputed
    /\ Q = 3
    /\ \E q, r, t \in 1..Q :
         /\ aos.probs[q][1] = 0
         /\ aos.probs[r][1] > 0 /\ aos.probs[t][1] > aos.probs[r][1]

\* C13: after a recomputation an operator with at least one reward and no
\* penalty in the window has a strictly higher probability than an operator
\* with no reward in the window; so with Q = 2, LP = 1, operator 0 holding 3
\* rewards and 0 penalties and operator 1 holding 0 rewards and 3 penalties,
\* probs[0] > probs[1].
C13_RewardedOperatorPreferred ==
    calls.fn = "_update_probabilities" =>
        \A q, r \in 1..Q :
            (calls.S1[q] >= 1 /\ calls.S2[q] = 0 /\ calls.S1[r] = 0)
                => RatLT(aos.probs[r], aos.probs[q])

\* Q = 2, LP = 1, 3 rewards for operator 0 and 3 penalties for operator 1
\* have been recomputed into probs[0] > probs[1].
C13_Witness ==
    /\ calls.fn = "_update_probabilities"
    /\ Q = 2 /\ LP = 1
    /\ calls.S1 = <<3, 0>> /\ calls.S2 = <<0, 3>>
    /\ RatLT(aos.probs[2], aos.probs[1])

\* -------------------------------------------------- properties of the result
\* Member i of the final population is dominated by no member.
NonDominated(i) == \A j \in DOMAIN objectives : ~dominates(objectives[j], objectives[i])

\* C14: the result of run() is exactly front 0 of the last surviving
\* population: every returned (chromosome, objective pair) is a non-dominated
\* member of the final population, every non-dominated member is returned,
\* and the result is not empty.
C14_ResultIsFirstFront ==
    pc = "done" =>
        LET pareto_solutions  == pareto[1]
            pareto_objectives == pareto[2]
        IN /\ Len(pareto_solutions) >= 1
           /\ Len(pareto_objectives) = Len(pareto_solutions)
           /\ \A k \in DOMAIN pareto_solutions :
                \E i \in DOMAIN population :
                    /\ population[i] = pareto_solutions[k]
                    /\ objectives[i] = pareto_objectives[k]
                    /\ NonDominated(i)
           /\ \A i \in DOMAIN population :
                NonDominated(i) =>
                    \E k \in DOMAIN pareto_solutions :
                        /\ population[i] = pareto_solutions[k]
                        /\ objectives[i] = pareto_objectives[k]
           /\ Len(pareto_solutions) = Cardinality({i \in DOMAIN population : NonDominated(i)})

\* A run of at least one generation has returned fewer solutions than the
\* final population holds: some member was dominated and left out.
C14_Witness ==
    /\ pc = "done" /\ generation >= 1
    /\ Len(pareto[1]) < N
    /\ \E i \in DOMAIN population : ~NonDominated(i)

\* ------------------------------------------------ properties of the oracle
\* C15: an error outside [0, 100] returned by the fitness oracle is rejected
\* by _evaluate instead of being stored in the cache and returned for
\* ranking: the cache and the returned pairs only ever hold errors in range.
C15_OutOfRangeRejected ==
    pc = "eval" =>
        /\ \A key \in DOMAIN cache : cache[key][1] \in 0..100
        /\ \A n \in DOMAIN EvalLog : EvalLog[n].ret[1] \in 0..100

\* ------------------------------------------------ properties of crossover
\* C16: for two parents of equal length that differ in at least one position,
\* and any cut point among the differing positions, reduced_surrogate returns
\* at least one child that differs from both parents.
C16_SurrogateChildDiffers ==
    (/\ pc = "returned" /\ calls.fn = "crossover" /\ calls.op = 5
     /\ population[1] # population[2])
    => \/ calls.c1 \notin {population[1], population[2]}
       \/ calls.c2 \notin {population[1], population[2]}

\* ------------------------------------------- properties of credit assignment
\* a is no worse than b in every objective and they are not equal.
Beats(a, b) == (\A m \in 1..2 : a[m] <= b[m]) /\ a # b

\* The penalty rule for one child of parents p1_obj, p2_obj.
IsPenalty(p1_obj, p2_obj, child_obj) ==
    \/ Beats(p1_obj, p2_obj) /\ Beats(p1_obj, child_obj)
    \/ Beats(p2_obj, p1_obj) /\ Beats(p2_obj, child_obj)
    \/ /\ ~Beats(p1_obj, p2_obj) /\ ~Beats(p2_obj, p1_obj)
       /\ Beats(p1_obj, child_obj) \/ Beats(p2_obj, child_obj)

\* C17: credit_assignment classifies each of the two children on its own and
\* adds exactly one count for it to the operator used, nothing to any other
\* operator: a penalty iff (one parent dominates the other and the dominating
\* parent dominates the child) or (the parents are mutually non-dominated and
\* at least one of them dominates the child), otherwise (a tie with a parent
\* included) a reward.
C17_CreditRule ==
    (pc = "returned" /\ calls.fn = "credit_assignment") =>
        LET penalties == Cardinality({c \in 1..2 :
                             IsPenalty(objectives[1], objectives[2], offspring_obj_list[c])})
        IN \A q \in 1..Q :
             IF q = op_idx
             THEN /\ aos.n_penalty[q] = calls.n_penalty_before[q] + penalties
                  /\ aos.n_reward[q]  = calls.n_reward_before[q] + (2 - penalties)
             ELSE /\ aos.n_penalty[q] = calls.n_penalty_before[q]
                  /\ aos.n_reward[q]  = calls.n_reward_before[q]

\* Mutually non-dominated parents, a first child equal to a parent (a tie:
\* reward) and a second child dominated by exactly one parent (penalty),
\* counted on an operator that already had counts.
C17_Witness ==
    /\ pc = "returned" /\ calls.fn = "credit_assignment"
    /\ ~Beats(objectives[1], objectives[2]) /\ ~Beats(objectives[2], objectives[1])
    /\ objectives[1] # objectives[2]
    /\ offspring_obj_list[1] = objectives[1]
    /\ Beats(objectives[1], offspring_obj_list[2]) /\ ~Beats(objectives[2], offspring_obj_list[2])
    /\ calls.n_reward_before[op_idx] = 1 /\ calls.n_penalty_before[op_idx] = 1
    /\ aos.n_reward[op_idx] = 2 /\ aos.n_penalty[op_idx] = 2

\* ------------------------------------------------ properties of the window
\* C18: over any sequence of end_generation calls k stays in 0..LP-1 between
\* calls; the probabilities are recomputed on exactly every LP-th call and on
\* no other call; each recomputation uses the counts of exactly the LP
\* generations since the previous recomputation; and right after it both
\* history matrices and the per-generation counters are all zero.
C18_WindowRecomputation ==
    /\ [](pc = "aos" =>
            /\ aos.k \in 0..(LP - 1)
            /\ aos.k = calls.ends % LP
            /\ calls.fn = "end_generation" =>
                 /\ calls.recomputed <=> (calls.ends % LP = 0)
                 /\ IF calls.recomputed
                    THEN /\ aos.probs = update_probabilities(<<calls.window.reward>>,
                                                             <<calls.window.penalty>>, Q)
                         /\ aos.RD = ZeroHistory(LP, Q) /\ aos.PN = ZeroHistory(LP, Q)
                         /\ aos.n_reward = ZeroCounts(Q) /\ aos.n_penalty = ZeroCounts(Q)
                    ELSE aos.probs = calls.probs_before)
    /\ [][(pc = "aos" /\ calls'.fn = "credit_assignment")
            => (aos'.probs = aos.probs /\ aos'.k = aos.k
                /\ aos'.RD = aos.RD /\ aos'.PN = aos.PN)]_vars

\* With LP = 2 the fourth end_generation call has recomputed for the second
\* time, from the counts of generations 3 and 4 only, and changed a vector
\* that the first recomputation had already moved away from uniform.
C18_Witness ==
    /\ pc = "aos" /\ LP = 2
    /\ calls.fn = "end_generation" /\ calls.ends = 4 /\ calls.recomputed
    /\ calls.probs_before # UniformProbs(Q)
    /\ aos.probs # calls.probs_before
    /\ aos.probs # UniformProbs(Q)

\* ------------------------------------------- properties of the generation loop
\* C19: in every iteration of the loop end_generation runs exactly once,
\* after all credit assignments of the iteration's batch and before
\* environmental selection, also when the batch is shorter than N or empty;
\* the number of end_generation calls always equals the generation counter.
C19_EndGenerationOncePerIteration ==
    calls.fn = "run" =>
        /\ calls.ends = generation
        /\ pc \in {"for", "raised"} =>
             /\ calls.ends = calls.iterations - 1
             /\ calls.selections = calls.ends
             /\ calls.credits = pairs_done
        /\ pc = "end_generation" =>
             /\ calls.ends = calls.iterations - 1
             /\ calls.selections = calls.ends
             /\ 2 * calls.credits = Len(offspring_list)
             /\ SumSeq(aos.n_reward) + SumSeq(aos.n_penalty) = Len(offspring_list)
        /\ pc = "select" =>
             /\ calls.ends = calls.iterations
             /\ calls.selections = calls.iterations - 1
             /\ aos.n_reward = ZeroCounts(Q) /\ aos.n_penalty = ZeroCounts(Q)
        /\ pc = "while" =>
             /\ calls.ends = calls.iterations
             /\ calls.selections = calls.iterations
        /\ pc \in {"extract", "done"} =>
             /\ calls.ends = calls.iterations
             /\ calls.selections \in {calls.iterations - 1, calls.iterations}

\* The budget check cut the batch short (one pair where N // 2 = 2 were due)
\* and end_generation has run for that iteration, before selection.
C19_Witness ==
    /\ calls.fn = "run" /\ pc = "select"
    /\ N = 4 /\ Len(offspring_list) = 2
    /\ calls.credits = 1 /\ calls.ends = 1 /\ calls.iterations = 1

\* res is front 0 of the current population, as (chromosomes, objectives).
IsFirstFront(res) ==
    /\ Len(res[1]) = Len(res[2])
    /\ Len(res[1]) = Cardinality({i \in DOMAIN population : NonDominated(i)})
    /\ \A k \in DOMAIN res[1] :
         \E i \in DOMAIN population :
            population[i] = res[1][k] /\ objectives[i] = res[2][k] /\ NonDominated(i)
    /\ \A i \in DOMAIN population :
         NonDominated(i) =>
            \E k \in DOMAIN res[1] : population[i] = res[1][k] /\ objectives[i] = res[2][k]

\* C20: a generation that produces no offspring ends the loop at once: no
\* environmental selection runs, population and objectives stay as they were
\* at the start of that generation, and the output is front 0 of that
\* population.
C20_EmptyGenerationTerminates ==
    [][/\ (pc \in {"for", "end_generation", "extract"} /\ calls.fn = "run")
            => (population' = population /\ objectives' = objectives)
       /\ (pc = "end_generation" /\ offspring_list = <<>>)
            => (pc' = "extract" /\ calls'.selections = calls.selections)
       /\ (pc = "extract" /\ calls.fn = "run")
            => (pc' = "done" /\ IsFirstFront(pareto'))]_vars

\* A run whose only generation produced no offspring (N // 2 = 0 pairs) has
\* returned without any environmental selection.
C20_Witness ==
    /\ calls.fn = "run" /\ pc = "done"
    /\ generation = 1 /\ calls.iterations = 1 /\ pairs_done = 0
    /\ calls.selections = 0
    /\ pareto = <<population, objectives>>

\* ------------------------------------------ properties of crowding distance
\* The distance vectors of a front when objective m alone is processed.
OnlyObjective(obj, m) ==
    LET den == RangeProduct(obj, 1)
    IN {CrowdObjective([i \in DOMAIN obj |-> <<0, den>>], obj, m, order, den)
          : order \in ArgSortEnds([i \in DOMAIN obj |-> obj[i][m]], DOMAIN obj)}

\* C21: on a front of size >= 3 an objective whose range over the front is
\* zero is skipped entirely: it changes no member's distance, so the result
\* is what processing the other objective alone gives (and all zero when
\* the other objective has range zero as well).
C21_ZeroRangeSkipped ==
    (/\ calls.fn = "crowding_distance"
     /\ Len(calls.front) >= 3)
    => \A m \in 1..2 :
         ObjRange(objectives, m) = 0
            => IF ObjRange(objectives, 3 - m) # 0
               THEN calls.distances \in OnlyObjective(objectives, 3 - m)
               ELSE \A i \in DOMAIN calls.distances : calls.distances[i][1] = 0

\* C22: when no operator earned a reward during the window (the sum of S4 is
\* zero, whatever the penalties), the recomputation sets every probability
\* to 1/Q and raises no error.
C22_UniformFallback ==
    (/\ calls.fn = "_update_probabilities"
     /\ \A q \in 1..Q : calls.S1[q] = 0)
    => /\ pc = "returned"
       /\ aos.probs = UniformProbs(Q)
       /\ aos.RD = ZeroHistory(LP, Q) /\ aos.PN = ZeroHistory(LP, Q)

\* A window of two generations with penalties only, unequal between the
\* operators, has been recomputed into the uniform vector.
C22_Witness ==
    /\ calls.fn = "_update_probabilities" /\ pc = "returned"
    /\ LP = 2
    /\ calls.S1 = <<0, 0>> /\ calls.S2 = <<4, 1>>
    /\ aos.probs = <<<<1, 2>>, <<1, 2>>>>

\* ------------------------------------------------- properties of mutation
\* C23: for every chromosome and every set of flipped positions,
\* uniform_mutation returns the input with exactly those bits flipped when
\* that has a set bit, and otherwise a chromosome with exactly one set bit;
\* the result always has a set bit and the input is left unmodified.
C23_MutationFlipsAndRepairs ==
    calls.fn = "uniform_mutation" =>
        LET individual == calls.individual
            flipped == [i \in DOMAIN individual |->
                          IF calls.flip_mask[i] = 1 THEN 1 - individual[i] ELSE individual[i]]
        IN /\ Len(calls.mutated) = Len(individual)
           /\ IF \E i \in DOMAIN flipped : flipped[i] = 1
              THEN calls.mutated = flipped
              ELSE BitSum(calls.mutated) = 1
           /\ BitSum(calls.mutated) >= 1
           /\ population[1] = individual

\* Every set bit of a chromosome of length 3 was flipped off and the repair
\* set exactly one bit, at a position that was 0 in the input.
C23_Witness ==
    /\ calls.fn = "uniform_mutation"
    /\ D = 3 /\ BitSum(calls.individual) = 2
    /\ calls.flip_mask = calls.individual
    /\ BitSum(calls.mutated) = 1
    /\ \E i \in 1..3 : calls.mutated[i] = 1 /\ calls.individual[i] = 0

\* ------------------------------------------------ properties of truncation
\* The front of `fronts` that does not fit into n slots after `taken` members
\* and the slots left for it; <<>> and 0 when every front fits.
RECURSIVE Overflowing(_, _, _)
Overflowing(fronts, n, taken) ==
    IF fronts = <<>> THEN [front |-> <<>>, needed |-> 0]
    ELSE IF taken + Len(Head(fronts)) <= n
         THEN Overflowing(Tail(fronts), n, taken + Len(Head(fronts)))
         ELSE [front |-> Head(fronts), needed |-> n - taken]

\* C24: when environmental_selection truncates an overflowing front and needs
\* at least 2 survivors from it, the boundary solutions of the front are
\* kept: for each objective a member attaining the front's minimum of that
\* objective is among the survivors.
C24_BoundaryKept ==
    calls.fn = "environmental_selection" =>
        LET cut == Overflowing(fast_non_dominated_sort(objectives), calls.N, 0)
            survivors == Range(calls.selected) \cap Range(cut.front)
        IN cut.needed >= 2 =>
             \A m \in 1..2 :
               \E s \in survivors :
                 \A i \in Range(cut.front) : objectives[s][m] <= objectives[i][m]

\* ------------------------------------------- properties of the population
\* C25: during the offspring production of a generation the population and
\* its objective pairs do not change: every parent pair is drawn from two
\* distinct slots of the population of the start of the generation, no child
\* becomes a parent within the generation, and the population is replaced
\* only once, as a whole, by the output of environmental selection.
C25_PopulationFrame ==
    /\ [](calls.fn = "run" =>
            /\ calls.distinct_parents
            /\ pc \in {"for", "end_generation", "select"} =>
                 (Len(population) = N /\ Len(objectives) = N))
    /\ [][calls.fn = "run" =>
            /\ pc \in {"while", "for", "end_generation", "extract"}
                 => (population' = population /\ objectives' = objectives)
            /\ (pc = "select" /\ pc' = "while")
                 => /\ calls'.selections = calls.selections + 1
                    /\ Len(population') = N /\ Len(objectives') = N
                    /\ \A i \in 1..N :
                         \E j \in 1..(N + Len(offspring_list)) :
                            /\ population'[i] = (population \o offspring_list)[j]
                            /\ objectives'[i] = (objectives \o offspring_obj_list)[j]]_vars

\* The second pair of a generation has been produced and the batch holds a
\* child that is not in the population, which still has its N members.
C25_Witness ==
    /\ calls.fn = "run" /\ pc = "for"
    /\ N = 4 /\ pairs_done = 2 /\ Len(offspring_list) = 4
    /\ \E k \in 1..4 : offspring_list[k] \notin Range(population)
    /\ Len(population) = 4

\* C26: every crossover operator and the dispatcher apply_crossover conserve
\* genes per position: at every position the two child bits are the two
\* parent bits, so the children have the parents' length, agree with the
\* parents wherever the parents agree, and identical parents give two copies.
C26_GenesConserved ==
    (pc = "returned" /\ calls.fn \in {"crossover", "apply_crossover"}) =>
        LET p1 == population[1]
            p2 == population[2]
        IN /\ Len(calls.c1) = Len(p1) /\ Len(calls.c2) = Len(p1)
           /\ \A i \in 1..Len(p1) :
                \/ calls.c1[i] = p1[i] /\ calls.c2[i] = p2[i]
                \/ calls.c1[i] = p2[i] /\ calls.c2[i] = p1[i]
           /\ \A i \in 1..Len(p1) :
                p1[i] = p2[i] => (calls.c1[i] = p1[i] /\ calls.c2[i] = p1[i])
           /\ p1 = p2 => (calls.c1 = p1 /\ calls.c2 = p1)

\* shuffle on parents of length 3 that differ everywhere has returned
\* children that each mix genes of both parents.
C26_Witness ==
    /\ pc = "returned" /\ calls.fn = "crossover" /\ calls.op = 4
    /\ D = 3
    /\ \A i \in 1..3 : population[1][i] # population[2][i]
    /\ calls.c1 \notin {population[1], population[2]}
    /\ calls.c2 \notin {population[1], population[2]}

\* C30: for every chromosome length L >= 2 and every pair of parents each of
\* the five crossover operators has a cut point to draw and returns two
\* children of length L; no operator fails for lack of cut points.
C30_OperatorsHaveCutPoints ==
    D >= 2 => pc # "raised"

\* ---------------------------------------------- properties of the budget count
\* 2^n
RECURSIVE Pow2(_)
Pow2(n) == IF n = 0 THEN 1 ELSE 2 * Pow2(n - 1)

\* C27: at every point of a run nFE is the number of distinct chromosomes
\* with at least one set bit that are keys of the fitness cache (so
\* nFE <= cache size <= 2^D), and nFE never decreases.
C27_BudgetCountsCachedKeys ==
    /\ [](calls.fn = "run" =>
            /\ nFE = Cardinality({key \in DOMAIN cache : \E i \in DOMAIN key : key[i] # 0})
            /\ nFE <= Cardinality(DOMAIN cache)
            /\ Cardinality(DOMAIN cache) <= Pow2(D))
    /\ [][nFE' >= nFE]_vars

\* A pair of children has been evaluated, one of them new: the cache holds
\* two chromosomes of length 2 and nFE is 2, of which one was counted in the
\* for loop.
C27_Witness ==
    /\ calls.fn = "run" /\ pc = "for" /\ pairs_done = 1
    /\ D = 2 /\ nFE = 2 /\ Cardinality(DOMAIN cache) = 2
    /\ \E k \in 1..2 : offspring_list[k] \notin Range(population)
    /\ \E k \in 1..2 : offspring_list[k] \in Range(population)

\* ------------------------------------------- properties of a zero probability
\* C28: once a recomputation gives an operator probability 0, the operator
\* is never chosen by select_operator, earns no rewards or penalties, and
\* keeps probability 0 at every later recomputation, until a window in which
\* no operator earns a reward resets all probabilities to 1/Q.
C28_ZeroProbabilityAbsorbing ==
    /\ [](calls.fn = "run" =>
            /\ (pc = "raised" \/ (pc = "for" /\ pairs_done >= 1)) => aos.probs[op_idx][1] > 0
            /\ \A q \in 1..Q :
                 aos.probs[q][1] = 0 =>
                    /\ aos.n_reward[q] = 0 /\ aos.n_penalty[q] = 0
                    /\ ColumnSum(aos.RD, q) = 0 /\ ColumnSum(aos.PN, q) = 0)
    /\ [][calls.fn = "run" =>
            \A q \in 1..Q :
               aos.probs[q][1] = 0 =>
                  \/ aos'.probs[q][1] = 0
                  \/ /\ aos'.probs = UniformProbs(Q)
                     /\ \A r \in 1..Q : ColumnSum(aos.RD, r) + aos.n_reward[r] = 0]_vars

\* After the second recomputation of a run the vector is not uniform and
\* still has operators of probability 0.
C28_Witness ==
    /\ calls.fn = "run" /\ generation = 2 /\ calls.ends = 2 /\ LP = 1
    /\ aos.probs # UniformProbs(Q)
    /\ \E q \in 1..Q : aos.probs[q][1] = 0


\* ------------------------------------------- properties of the elitism
\* The smallest value of objective m among the pairs of obj.
MinObjective(obj, m) ==
    CHOOSE v \in {obj[i][m] : i \in DOMAIN obj} :
        \A i \in DOMAIN obj : v <= obj[i][m]

\* C29: for every N >= 2 the minimum classification error and the minimum
\* feature count present in the population never increase from one
\* generation to the next.
C29_MinimaNeverIncrease ==
    [][(calls.fn = "run" /\ N >= 2 /\ pc = "select") =>
          \A m \in 1..2 :
             MinObjective(objectives', m) <= MinObjective(objectives, m)]_vars

====
